---- MODULE Spec2Model ----
(***************************************************************************)
(* Server-authoritative multiplayer synchronisation of the game server:    *)
(* GameServer (connection gateway and broadcast loop), Room (session map   *)
(* and character arbiter) and Player (session), together with the part of  *)
(* the client's NetworkManager that keeps the set of remote players.       *)
(*                                                                         *)
(* Every socket.io event handler runs to completion on the event loop, so  *)
(* each handler is one action.  `out` holds the messages the last handler  *)
(* emitted and `last` what that handler was, so that claims about what a   *)
(* handler delivers are state predicates.  Arrays built from Map iteration *)
(* (rosters, update batches) are modelled as sets: their order is not      *)
(* modelled.  Display names and timestamps are not modelled.  `accepted`   *)
(* is a history variable too: SpecMove records in it the moves applied to  *)
(* an active session since the last tick; the other specifications leave   *)
(* it alone.                                                               *)
(*                                                                         *)
(* Lengths are in units of 0.001 world units, angles in 0.001 radians.     *)
(***************************************************************************)
EXTENDS Integers, FiniteSets, Sequences, TLC

\* ---------------------------------------------------------------- bounds
NumSockets == 3
Sockets == 1..NumSockets
NoSocket == 0

\* Room.maxPlayers of the default room (30 in CONFIG), scaled to be reachable
maxPlayers == 2

\* the sockets that send player:move in SpecMove, and the moves one of them
\* sends between two ticks there
NumMovers == 1
Movers == 1..NumMovers
MaxMoves == 2

\* ------------------------------------------------------- program constants
POSITION_THRESHOLD == 10
ROTATION_THRESHOLD == 10
minX == -500000
maxX == 500000
minZ == -500000
maxZ == 500000
AVAILABLE_CHARACTERS == <<"eleven", "mike", "dustin", "lucas", "will", "max">>
MAX_CHAT_LENGTH == 200

Characters == {AVAILABLE_CHARACTERS[i] : i \in 1..Len(AVAILABLE_CHARACTERS)}
NoCharacter == "null"
NoUid == "null"
DefaultRoom == "hawkins-1"
NoRoom == "null"
WorldStates == {"normal", "upsideDown"}

\* ------------------------------------------------------------ input domains
CharacterInputs == {"eleven", "mike", "vecna"}
UidInputs == {NoUid}
SelectInputs == {"eleven", "mike", "dustin"}
\* the identity tokens connections may present (SpecIdentity)
Uids == {"uid-1"}
IdentityInputs == Uids \cup {NoUid}
RoomInputs == {DefaultRoom, "hawkins-2"}
WorldStateInputs == {"normal", "upsideDown", "void"}
SpawnPositions == {[x |-> 0, y |-> 0, z |-> 0]}
NoPosition == [x |-> 0, y |-> 0, z |-> 0, absent |-> TRUE]
PositionInputs == {[x |-> 20, y |-> 0, z |-> 0]}
NoRotation == -1000000
NoAnimation == "undefined"
\* the fields of player:move in SpecMove: each may be missing; positions and
\* yaws below and above the thresholds, seen from the spawn position
MovePositionInputs == {NoPosition, [x |-> 5, y |-> 0, z |-> 0], [x |-> 20, y |-> 0, z |-> 0]}
MoveRotationInputs == {NoRotation, 5, 20}
MoveAnimationInputs == {NoAnimation, "walk"}
\* a message one character longer than the limit, its last character distinct
AnimationInputs == {"walk"}
\* the animation values the client's animation states use, and values of
\* player:move and player:animation in SpecAnimation: a tag and another string
AnimationTags == {"idle", "walk", "run"}
AnyAnimationInputs == {"run", "dance"}
\* the fields of player:move in SpecDrift: positions and yaws in steps below the
\* thresholds that add up to more than the thresholds
DriftPositionInputs ==
    {NoPosition, [x |-> 6, y |-> 0, z |-> 0], [x |-> 12, y |-> 0, z |-> 6],
     [x |-> 18, y |-> 0, z |-> 12]}
DriftRotationInputs == {NoRotation, 6, 12, 18}
\* the number NaN: what Math.min and Math.max return when an argument is
\* undefined or is not a number, what arithmetic on NaN returns, and a value
\* that is neither greater nor smaller than any number
NaN == 999999999
\* positions of player:move in SpecBounds: on, inside and outside each bound,
\* and a position object that has y and z and no x ({y: 0.02, z: 0})
BoundsPositionInputs ==
    {[x |-> maxX + 20, y |-> 0, z |-> 0], [x |-> maxX, y |-> 0, z |-> minZ - 20],
     [x |-> minX - 1, y |-> 0, z |-> maxZ + 1], [x |-> maxX - 5, y |-> 0, z |-> maxZ],
     [x |-> NaN, y |-> 20, z |-> 0]}
LongText == [i \in 1..(MAX_CHAT_LENGTH + 1) |-> IF i > MAX_CHAT_LENGTH THEN "z" ELSE "x"]
ChatInputs == {<<"h", "i">>, LongText}

\* ------------------------------------------------------------------ state
VARIABLES
    closed,              \* socket -> the transport connection has closed
    ioRoom,              \* sockets joined to the socket.io room of DefaultRoom
    players,             \* GameServer.players: socket -> Player
    socketToRoom,        \* GameServer.socketToRoom: socket -> roomId
    uidToSocket,         \* GameServer.uidToSocket: uid -> socket
    roomPlayers,         \* Room.players of DefaultRoom: socket -> Player
    aliased,             \* socket -> Room.players holds the very object GameServer.players holds
    selectedCharacters,  \* Room.selectedCharacters: characterId -> socket
    remotePlayers,       \* NetworkManager.remotePlayers of each client: set of ids
    accepted,            \* history: socket -> moves applied to its active session since the last tick
    out,                 \* messages emitted by the last handler or tick
    last                 \* the last handler or tick that ran

vars == <<closed, ioRoom, players, socketToRoom, uidToSocket, roomPlayers,
          aliased, selectedCharacters, remotePlayers, accepted, out, last>>

\* ----------------------------------------------------------------- Player
NoPlayer ==
    [id |-> NoSocket, firebaseUid |-> NoUid, position |-> [x |-> 0, y |-> 0, z |-> 0],
     rotation |-> 0, worldState |-> "normal", animation |-> "idle",
     characterId |-> NoCharacter, needsBroadcast |-> FALSE]

\* a Player that starts with a character
NewPlayer_WithCharacter(id, position) ==
    [id |-> id, firebaseUid |-> NoUid, position |-> position, rotation |-> 0,
     worldState |-> "normal", animation |-> "idle", characterId |-> AVAILABLE_CHARACTERS[1],
     needsBroadcast |-> FALSE]

\* new Player(id, username, position)
NewPlayer(id, position) ==
    [id |-> id, firebaseUid |-> NoUid, position |-> position, rotation |-> 0,
     worldState |-> "normal", animation |-> "idle", characterId |-> NoCharacter,
     needsBroadcast |-> FALSE]

\* Math.abs, Math.min, Math.max
Abs(a) == IF a < 0 THEN -a ELSE a
Min(a, b) == IF a < b THEN a ELSE b
Max(a, b) == IF a > b THEN a ELSE b

\* Math.min, Math.max, subtraction and > when an argument may be NaN
MathMin(a, b) == IF a = NaN \/ b = NaN THEN NaN ELSE Min(a, b)
MathMax(a, b) == IF a = NaN \/ b = NaN THEN NaN ELSE Max(a, b)
Distance(a, b) == IF a = NaN \/ b = NaN THEN NaN ELSE Abs(a - b)
Greater(a, b) == a # NaN /\ b # NaN /\ a > b

\* a hasPositionChanged without threshold
hasPositionChanged_AnyDelta(p, newPos, threshold) ==
    \/ p.position.x # newPos.x
    \/ p.position.y # newPos.y
    \/ p.position.z # newPos.z

\* Player.hasPositionChanged
hasPositionChanged(p, newPos, threshold) ==
    \/ Greater(Distance(p.position.x, newPos.x), threshold)
    \/ Greater(Distance(p.position.y, newPos.y), threshold)
    \/ Greater(Distance(p.position.z, newPos.z), threshold)

\* a hasRotationChanged that never finds a change
hasRotationChanged_Never(p, newRot, threshold) == FALSE

\* Player.hasRotationChanged
hasRotationChanged(p, newRot, threshold) == Abs(p.rotation - newRot) > threshold

\* Player.serialize
serialize(p) ==
    [id |-> p.id, position |-> p.position, rotation |-> p.rotation,
     worldState |-> p.worldState, animation |-> p.animation,
     characterId |-> p.characterId]

\* ------------------------------------------------------------------- Room
\* keys of Room.players
RoomIds == {s \in Sockets : roomPlayers[s].id # NoSocket}

\* a getPlayersInWorldState that forgets its filter
PlayersInWorldStateOf_AnyWorld(rp, worldState) ==
    {s \in Sockets : rp[s].id # NoSocket}

\* Room.getPlayersInWorldState over a given session map: the ids of its result
PlayersInWorldStateOf(rp, worldState) ==
    {s \in Sockets : rp[s].id # NoSocket /\ rp[s].worldState = worldState}

getPlayersInWorldState(worldState) == PlayersInWorldStateOf(roomPlayers, worldState)

\* a room that is never full
isFull_Never == FALSE

\* Room.isFull
isFull == Cardinality(RoomIds) >= maxPlayers

\* Room.getCharacterStates over a given character map
CharacterStatesOf(sel) ==
    [i \in 1..Len(AVAILABLE_CHARACTERS) |->
        [id |-> AVAILABLE_CHARACTERS[i],
         available |-> sel[AVAILABLE_CHARACTERS[i]] = NoSocket,
         takenBy |-> sel[AVAILABLE_CHARACTERS[i]]]]

getCharacterStates == CharacterStatesOf(selectedCharacters)

\* Room.releaseCharacter: the map after deleting the first entry held by playerId
\* (entries are visited in the order of AVAILABLE_CHARACTERS)
ReleasedIndex(sel, playerId) ==
    LET held == {i \in 1..Len(AVAILABLE_CHARACTERS) : sel[AVAILABLE_CHARACTERS[i]] = playerId}
    IN  IF held = {} THEN 0 ELSE CHOOSE i \in held : \A j \in held : i <= j

\* a releaseCharacter that releases nothing
releaseCharacter_Keep(sel, playerId) == sel

\* Room.releaseCharacter: the character map it leaves
releaseCharacter(sel, playerId) ==
    LET i == ReleasedIndex(sel, playerId)
    IN  IF i = 0 THEN sel ELSE [sel EXCEPT ![AVAILABLE_CHARACTERS[i]] = NoSocket]

\* a releaseCharacter that never reports what it released
releasedCharacter_None(sel, playerId) == NoCharacter

\* the characterId Room.releaseCharacter returns
releasedCharacter(sel, playerId) ==
    LET i == ReleasedIndex(sel, playerId)
    IN  IF i = 0 THEN NoCharacter ELSE AVAILABLE_CHARACTERS[i]

\* a selectCharacter that does not check whether the character is taken
selectCharacterResult_NoTakenCheck(sel, playerId, characterId) ==
    IF characterId \notin Characters THEN [success |-> FALSE, error |-> "Invalid character"]
    ELSE [success |-> TRUE, error |-> "none"]

\* a selectCharacter that lets a session select the character it already holds
selectCharacterResult_OwnAllowed(sel, playerId, characterId) ==
    IF characterId \notin Characters THEN [success |-> FALSE, error |-> "Invalid character"]
    ELSE IF sel[characterId] \notin {NoSocket, playerId}
         THEN [success |-> FALSE, error |-> "Character already taken"]
         ELSE [success |-> TRUE, error |-> "none"]

\* Room.selectCharacter: its result
selectCharacterResult(sel, playerId, characterId) ==
    IF characterId \notin Characters THEN [success |-> FALSE, error |-> "Invalid character"]
    ELSE IF sel[characterId] # NoSocket
         THEN [success |-> FALSE, error |-> "Character already taken"]
         ELSE [success |-> TRUE, error |-> "none"]

\* a selectCharacter that releases the caller's character before it checks
selectCharacter_ReleaseFirst(sel, playerId, characterId) ==
    IF characterId \notin Characters THEN sel
    ELSE IF sel[characterId] # NoSocket THEN releaseCharacter(sel, playerId)
         ELSE [releaseCharacter(sel, playerId) EXCEPT ![characterId] = playerId]

\* Room.selectCharacter: the character map it leaves
selectCharacter(sel, playerId, characterId) ==
    IF selectCharacterResult(sel, playerId, characterId).success
    THEN [releaseCharacter(sel, playerId) EXCEPT ![characterId] = playerId]
    ELSE sel

\* a removePlayer that leaves the session in the map
removePlayer_Keep(rp, playerId) == rp

\* Room.removePlayer: the session map it leaves (the character map it leaves is
\* releaseCharacter's, the value it returns is releasedCharacter's)
removePlayer(rp, playerId) == [rp EXCEPT ![playerId] = NoPlayer]

\* --------------------------------------------------------------- messages
NoCharacters == <<>>

Msg(to, event, id, player, roster, characters, error, text) ==
    [to |-> to, event |-> event, id |-> id, player |-> player, players |-> roster,
     characters |-> characters, error |-> error, message |-> text]

ErrorMsg(to, message) == Msg(to, "error", NoSocket, serialize(NoPlayer), {}, NoCharacters, message, <<>>)

\* sockets reached by socket.to(roomId) from socket s
ToRoomExcept(s) == ioRoom \ {s}

\* sockets reached by io.to(id): the socket itself while it is connected
ToSocket(id) == IF closed[id] THEN {} ELSE {id}

\* ------------------------------------------------------------------ client
\* NetworkManager.addRemotePlayer for each of ids, on client s
addRemotePlayers(rem, s, ids) == rem \cup (ids \ {s})

\* the remotePlayers of every client after the messages ms are delivered:
\* player:worldChanged clears before it adds, player:left removes
Deliver(ms) ==
    [s \in Sockets |->
        LET mine == {m \in ms : m.to = s}
            cleared == IF \E m \in mine : m.event = "player:worldChanged"
                       THEN {} ELSE remotePlayers[s]
            removed == {m.id : m \in {n \in mine : n.event = "player:left"}}
            spawned == {m.player.id : m \in {n \in mine : n.event = "player:spawned"}}
            rosters == UNION {{p.id : p \in m.players} :
                              m \in {n \in mine : n.event \in {"player:joined", "player:worldChanged"}}}
        IN  addRemotePlayers(cleared \ removed, s, spawned \cup rosters)]

\* ---------------------------------------------------------------- history
\* no move applied since the last tick
NoMoves == [n |-> 0, position |-> [x |-> 0, y |-> 0, z |-> 0], rotation |-> 0,
            animation |-> "idle"]

\* what the last handler was, with the server state it started from
Last(op, id, arg, ok) ==
    [op |-> op, id |-> id, arg |-> arg, ok |-> ok,
     players |-> players, roomPlayers |-> roomPlayers, aliased |-> aliased,
     selectedCharacters |-> selectedCharacters, ioRoom |-> ioRoom,
     closed |-> closed, socketToRoom |-> socketToRoom, uidToSocket |-> uidToSocket,
     accepted |-> accepted]

\* ------------------------------------------------------------------- Init
Init ==
    /\ closed = [s \in Sockets |-> FALSE]
    /\ ioRoom = {}
    /\ players = [s \in Sockets |-> NoPlayer]
    /\ socketToRoom = [s \in Sockets |-> NoRoom]
    /\ uidToSocket = [u \in Uids |-> NoSocket]
    /\ roomPlayers = [s \in Sockets |-> NoPlayer]
    /\ aliased = [s \in Sockets |-> FALSE]
    /\ selectedCharacters = [c \in Characters |-> NoSocket]
    /\ remotePlayers = [s \in Sockets |-> {}]
    /\ accepted = [s \in Sockets |-> NoMoves]
    /\ out = {}
    /\ last = Last("init", NoSocket, "none", TRUE)

\* ------------------------------------------------- GameServer: the handlers
\* a handler that only replies: no server state changes
ReplyOnly(ms) ==
    /\ out' = ms
    /\ UNCHANGED <<closed, ioRoom, players, socketToRoom, uidToSocket, roomPlayers,
                   aliased, selectedCharacters>>

\* the Player object GameServer.players holds for s becomes p; Room.players sees
\* the change when it holds the same object
SetPlayer(s, p) ==
    /\ players' = [players EXCEPT ![s] = p]
    /\ roomPlayers' = IF aliased[s] THEN [roomPlayers EXCEPT ![s] = p] ELSE roomPlayers

\* a lookup that finds a session for every socket
Registered_Always(s) == TRUE

\* the lookups every handler starts with
Registered(s) == players[s].id # NoSocket /\ socketToRoom[s] # NoRoom

\* if (uid) this.uidToSocket.set(uid, socket.id)
setUid(map, uid, id) == IF uid # NoUid THEN [map EXCEPT ![uid] = id] ELSE map

\* a reconnection that removes the session of the socket the token was mapped to
reconnection_Evict(pl, uid, id) ==
    IF uid # NoUid /\ uidToSocket[uid] \notin {NoSocket, id}
    THEN [pl EXCEPT ![uidToSocket[uid]] = NoPlayer]
    ELSE pl

\* "Handle reconnection": when the token is mapped to another socket the block
\* writes a log line; GameServer.players as it leaves it
reconnection(pl, uid, id) == pl

handlePlayerJoin(s, uid, roomId) ==
    /\ ~closed[s]
    /\ IF roomId # DefaultRoom
       THEN /\ last' = Last("join", s, roomId, FALSE)
            /\ ReplyOnly({ErrorMsg(s, "Room not found")})
       ELSE IF isFull
       THEN /\ last' = Last("join", s, roomId, FALSE)
            /\ ReplyOnly({ErrorMsg(s, "Room is full")})
       ELSE \E spawnPos \in SpawnPositions :
            LET player == [NewPlayer(s, spawnPos) EXCEPT !.firebaseUid = uid]
                ms == {Msg(s, "player:selectCharacterScreen", s, serialize(NoPlayer), {},
                           getCharacterStates, "none", <<>>)}
            IN  /\ last' = Last("join", s, roomId, TRUE)
                /\ players' = [reconnection(players, uid, s) EXCEPT ![s] = player]
                /\ aliased' = [aliased EXCEPT ![s] = FALSE]
                /\ socketToRoom' = [socketToRoom EXCEPT ![s] = roomId]
                /\ uidToSocket' = setUid(uidToSocket, uid, s)
                /\ ioRoom' = ioRoom \cup {s}
                /\ out' = ms
                /\ UNCHANGED <<closed, roomPlayers, selectedCharacters>>

\* a broadcast of the character states that reaches the ready sessions only
selectRecipients_ReadyOnly(s) == ToRoomExcept(s) \cap RoomIds

\* socket.to(roomId).emit("character:stateChanged"): who it reaches
selectRecipients(s) == ToRoomExcept(s)

handleCharacterSelect(s, characterId) ==
    /\ ~closed[s]
    /\ IF ~Registered(s)
       THEN /\ last' = Last("selectCharacter", s, characterId, FALSE)
            /\ ReplyOnly({ErrorMsg(s, "Player not found")})
       ELSE LET result == selectCharacterResult(selectedCharacters, s, characterId)
                sel == selectCharacter(selectedCharacters, s, characterId)
                player == IF result.success
                          THEN [players[s] EXCEPT !.characterId = characterId]
                          ELSE players[s]
                ms == IF ~result.success
                      THEN {Msg(s, "character:selectFailed", NoSocket, serialize(NoPlayer),
                                {}, CharacterStatesOf(sel), result.error, <<>>)}
                      ELSE {Msg(s, "character:selected", NoSocket,
                                [serialize(NoPlayer) EXCEPT !.characterId = characterId],
                                {}, CharacterStatesOf(sel), "none", <<>>)}
                           \cup {Msg(t, "character:stateChanged", NoSocket,
                                     serialize(NoPlayer), {}, CharacterStatesOf(sel),
                                     "none", <<>>) : t \in selectRecipients(s)}
            IN  /\ last' = Last("selectCharacter", s, characterId, result.success)
                /\ selectedCharacters' = sel
                /\ SetPlayer(s, player)
                /\ out' = ms
                /\ UNCHANGED <<closed, ioRoom, socketToRoom, uidToSocket, aliased>>

\* a check that lets every player through
noCharacterSelected_Never(player) == FALSE

\* if (!player.characterId): the player has not selected a character
noCharacterSelected(player) == player.characterId = NoCharacter

\* a roster that is not filtered by world state
readyRoster_WholeRoom(s, player, rp) ==
    {serialize(rp[t]) : t \in {q \in Sockets : rp[q].id # NoSocket} \ {s}}

\* the players of player:joined: the sessions of rp (Room.players once the caller
\* is added) in the caller's world state, without the caller, serialized
readyRoster(s, player, rp) ==
    {serialize(rp[t]) : t \in PlayersInWorldStateOf(rp, player.worldState) \ {s}}

handlePlayerReady(s) ==
    /\ ~closed[s]
    /\ IF ~Registered(s)
       THEN /\ last' = Last("ready", s, "none", FALSE)
            /\ ReplyOnly({ErrorMsg(s, "Player not found")})
       ELSE IF noCharacterSelected(players[s])
       THEN /\ last' = Last("ready", s, "none", FALSE)
            /\ ReplyOnly({ErrorMsg(s, "Please select a character first")})
       ELSE LET player == players[s]
                rp == [roomPlayers EXCEPT ![s] = player]
                ms == {Msg(s, "player:joined", s, serialize(player),
                           readyRoster(s, player, rp),
                           NoCharacters, "none", <<>>)}
                      \cup {Msg(t, "player:spawned", s, serialize(player), {},
                                NoCharacters, "none", <<>>) : t \in ToRoomExcept(s)}
            IN  /\ last' = Last("ready", s, "none", TRUE)
                /\ roomPlayers' = rp
                /\ aliased' = [aliased EXCEPT ![s] = TRUE]
                /\ out' = ms
                /\ UNCHANGED <<closed, ioRoom, players, socketToRoom, uidToSocket,
                               selectedCharacters>>

\* the position of a move after the bounds validation
\* position.x = Math.max(minX, Math.min(maxX, position.x)), the same for z
ClampPosition(position) ==
    [x |-> MathMax(minX, MathMin(maxX, position.x)), y |-> position.y,
     z |-> MathMax(minZ, MathMin(maxZ, position.z))]

\* an update that does not mark the player for broadcast
movedPlayer_Unmarked(player, pos, rotation, animation) ==
    [player EXCEPT
        !.position = IF pos # NoPosition THEN pos ELSE @,
        !.rotation = IF rotation # NoRotation THEN rotation ELSE @,
        !.animation = IF animation # NoAnimation THEN animation ELSE @]

\* the player after a significant move: setPosition, setRotation and animation
\* for the fields present, and the mark for broadcast
movedPlayer(player, pos, rotation, animation) ==
    [player EXCEPT
        !.position = IF pos # NoPosition THEN pos ELSE @,
        !.rotation = IF rotation # NoRotation THEN rotation ELSE @,
        !.animation = IF animation # NoAnimation THEN animation ELSE @,
        !.needsBroadcast = TRUE]

\* a move handler that tells the other sockets of the room at once
moveMessages_Immediate(s) ==
    {Msg(t, "players:update", NoSocket, serialize(NoPlayer), {}, NoCharacters, "none", <<>>) :
     t \in ToRoomExcept(s)}

\* the messages handlePlayerMove emits: it has no emit on any path
moveMessages(s) == {}

handlePlayerMove(s, position, rotation, animation) ==
    /\ ~closed[s]
    /\ last' = Last("move", s, [position |-> position, rotation |-> rotation,
                                animation |-> animation], players[s].id # NoSocket)
    /\ out' = moveMessages(s)
    /\ UNCHANGED <<closed, ioRoom, socketToRoom, uidToSocket, aliased, selectedCharacters>>
    /\ IF players[s].id = NoSocket
       THEN UNCHANGED <<players, roomPlayers>>
       ELSE LET player == players[s]
                pos == IF position = NoPosition THEN position ELSE ClampPosition(position)
                posChanged == /\ position # NoPosition
                              /\ hasPositionChanged(player, pos, POSITION_THRESHOLD)
                rotChanged == /\ rotation # NoRotation
                              /\ hasRotationChanged(player, rotation, ROTATION_THRESHOLD)
                animChanged == animation # NoAnimation /\ player.animation # animation
            IN  IF ~posChanged /\ ~rotChanged /\ ~animChanged
                THEN UNCHANGED <<players, roomPlayers>>
                ELSE SetPlayer(s, movedPlayer(player, pos, rotation, animation))

\* a validation that accepts any value that differs from the current one
worldChangeAccepted_AnyValue(player, newWorldState) ==
    player.worldState # newWorldState

\* the validation of handleWorldChange: the change is carried out
worldChangeAccepted(player, newWorldState) ==
    /\ newWorldState \in {"normal", "upsideDown"}
    /\ player.worldState # newWorldState

\* a handleWorldChange that tells every other session of the room the player left
worldChangeMessages_LeftToAll(s, player, rp, oldWorldState, newWorldState) ==
    LET oldWorldPlayers == {p \in Sockets : rp[p].id # NoSocket} \ {s}
        newWorldPlayers == PlayersInWorldStateOf(rp, newWorldState) \ {s}
    IN  {Msg(t, "player:left", s, serialize(NoPlayer), {}, NoCharacters, "none", <<>>) :
         t \in UNION {ToSocket(p) : p \in oldWorldPlayers}}
        \cup {Msg(t, "player:spawned", s, serialize(player), {}, NoCharacters,
                  "none", <<>>) :
              t \in UNION {ToSocket(p) : p \in newWorldPlayers}}
        \cup {Msg(s, "player:worldChanged", s,
                  [serialize(NoPlayer) EXCEPT !.worldState = newWorldState],
                  {serialize(rp[p]) : p \in newWorldPlayers}, NoCharacters, "none", <<>>)}

\* the messages handleWorldChange emits once player (of socket s) has its new
\* world state, rp being Room.players at that moment
worldChangeMessages(s, player, rp, oldWorldState, newWorldState) ==
    LET oldWorldPlayers == PlayersInWorldStateOf(rp, oldWorldState) \ {s}
        newWorldPlayers == PlayersInWorldStateOf(rp, newWorldState) \ {s}
    IN  {Msg(t, "player:left", s, serialize(NoPlayer), {}, NoCharacters, "none", <<>>) :
         t \in UNION {ToSocket(p) : p \in oldWorldPlayers}}
        \cup {Msg(t, "player:spawned", s, serialize(player), {}, NoCharacters,
                  "none", <<>>) :
              t \in UNION {ToSocket(p) : p \in newWorldPlayers}}
        \cup {Msg(s, "player:worldChanged", s,
                  [serialize(NoPlayer) EXCEPT !.worldState = newWorldState],
                  {serialize(rp[p]) : p \in newWorldPlayers}, NoCharacters, "none", <<>>)}

handleWorldChange(s, newWorldState) ==
    /\ ~closed[s]
    /\ IF ~Registered(s) \/ ~worldChangeAccepted(players[s], newWorldState)
       THEN /\ last' = Last("worldChange", s, newWorldState, FALSE)
            /\ ReplyOnly({})
       ELSE LET oldWorldState == players[s].worldState
                player == [players[s] EXCEPT !.worldState = newWorldState]
                rp == IF aliased[s] THEN [roomPlayers EXCEPT ![s] = player] ELSE roomPlayers
            IN  /\ last' = Last("worldChange", s, newWorldState, TRUE)
                /\ SetPlayer(s, player)
                /\ out' = worldChangeMessages(s, player, rp, oldWorldState, newWorldState)
                /\ UNCHANGED <<closed, ioRoom, socketToRoom, uidToSocket, aliased,
                               selectedCharacters>>

\* an animation handler that clears the mark for broadcast
handleAnimationChange_Clears(s, animation) ==
    /\ ~closed[s]
    /\ last' = Last("animation", s, animation, players[s].id # NoSocket)
    /\ out' = {}
    /\ UNCHANGED <<closed, ioRoom, socketToRoom, uidToSocket, aliased, selectedCharacters>>
    /\ IF players[s].id = NoSocket
       THEN UNCHANGED <<players, roomPlayers>>
       ELSE SetPlayer(s, [players[s] EXCEPT !.animation = animation,
                                            !.needsBroadcast = FALSE])

handleAnimationChange(s, animation) ==
    /\ ~closed[s]
    /\ last' = Last("animation", s, animation, players[s].id # NoSocket)
    /\ out' = {}
    /\ UNCHANGED <<closed, ioRoom, socketToRoom, uidToSocket, aliased, selectedCharacters>>
    /\ IF players[s].id = NoSocket
       THEN UNCHANGED <<players, roomPlayers>>
       ELSE SetPlayer(s, [players[s] EXCEPT !.animation = animation,
                                            !.needsBroadcast = TRUE])

\* a substring that does not cut
substring_Whole(text, n) == text

\* String.substring(0, n)
substring(text, n) == SubSeq(text, 1, Min(Len(text), n))

handleChat(s, text) ==
    /\ ~closed[s]
    /\ IF ~Registered(s)
       THEN /\ last' = Last("chat", s, text, FALSE)
            /\ ReplyOnly({})
       ELSE /\ last' = Last("chat", s, text, TRUE)
            /\ ReplyOnly({Msg(t, "player:chat", s, serialize(NoPlayer), {}, NoCharacters,
                              "none", substring(text, MAX_CHAT_LENGTH)) :
                          t \in UNION {ToSocket(p) :
                                       p \in getPlayersInWorldState(players[s].worldState)}})

\* a removePlayer that releases the character of a session of Room.players only
removePlayerCharacters_ReadyOnly(sel, rp, playerId) ==
    IF rp[playerId].id # NoSocket THEN releaseCharacter(sel, playerId) ELSE sel

\* Room.removePlayer: the character map it leaves; it calls releaseCharacter
\* whether or not Room.players holds the id
removePlayerCharacters(sel, rp, playerId) == releaseCharacter(sel, playerId)

\* GameServer.handleDisconnect, run for socket s: the transport of s is closed
\* and s is in no socket.io room when it runs
disconnectHandler(s) ==
    /\ closed' = [closed EXCEPT ![s] = TRUE]
    /\ ioRoom' = ioRoom \ {s}
    /\ last' = Last("disconnect", s, "none", Registered(s))
    /\ players' = [players EXCEPT ![s] = NoPlayer]
    /\ socketToRoom' = [socketToRoom EXCEPT ![s] = NoRoom]
    /\ aliased' = [aliased EXCEPT ![s] = FALSE]
    /\ IF Registered(s)
       THEN LET player == players[s]
                released == releasedCharacter(selectedCharacters, s)
                sel == removePlayerCharacters(selectedCharacters, roomPlayers, s)
                rp == removePlayer(roomPlayers, s)
                ms == {Msg(t, "player:left", s, serialize(NoPlayer), {}, NoCharacters,
                           "none", <<>>) :
                       t \in UNION {IF closed'[p] THEN {} ELSE {p} :
                                    p \in PlayersInWorldStateOf(rp, player.worldState)}}
                      \cup IF released # NoCharacter
                           THEN {Msg(t, "character:stateChanged", NoSocket,
                                     serialize(NoPlayer), {}, CharacterStatesOf(sel),
                                     "none", <<>>) : t \in ioRoom'}
                           ELSE {}
            IN  /\ selectedCharacters' = sel
                /\ roomPlayers' = rp
                /\ uidToSocket' = IF player.firebaseUid # NoUid
                                  THEN [uidToSocket EXCEPT ![player.firebaseUid] = NoSocket]
                                  ELSE uidToSocket
                /\ out' = ms
       ELSE /\ out' = {}
            /\ UNCHANGED <<selectedCharacters, roomPlayers, uidToSocket>>

\* the "disconnect" event of socket s: socket.io fires it once, when the
\* transport closes and the socket has left its rooms
handleDisconnect(s) == ~closed[s] /\ disconnectHandler(s)

\* ------------------------------------------------- GameServer: the game loop
\* a batch that is never filled
UpdatesOf_Nothing(rp, worldState) == {}

\* the batch broadcastUpdates collects from the sessions of one world state of
\* a given session map
UpdatesOf(rp, worldState) ==
    {[id |-> rp[p].id, position |-> rp[p].position,
      rotation |-> rp[p].rotation, animation |-> rp[p].animation] :
     p \in {q \in PlayersInWorldStateOf(rp, worldState) : rp[q].needsBroadcast}}

\* a batch that holds every session of the world state, marked or not
Updates_Everyone(worldState) ==
    UpdatesOf([s \in Sockets |-> [roomPlayers[s] EXCEPT !.needsBroadcast = TRUE]], worldState)

Updates(worldState) == UpdatesOf(roomPlayers, worldState)

\* a broadcastUpdates that sends every session of the group its filtered batch,
\* empty or not
broadcastUpdates_EvenEmpty(worldState) ==
    LET updates == Updates(worldState)
    IN  IF updates = {} THEN {}
        ELSE {Msg(t, "players:update", NoSocket, serialize(NoPlayer),
                  {u \in updates : u.id # t}, NoCharacters, "none", <<>>) :
              t \in UNION {ToSocket(p) : p \in getPlayersInWorldState(worldState)}}

\* the messages broadcastUpdates emits for one world state
broadcastUpdates(worldState) ==
    LET updates == Updates(worldState)
    IN  {Msg(t, "players:update", NoSocket, serialize(NoPlayer),
             {u \in updates : u.id # t}, NoCharacters, "none", <<>>) :
         t \in {q \in UNION {ToSocket(p) : p \in getPlayersInWorldState(worldState)} :
                \E u \in updates : u.id # q}}

\* one run of the setInterval callback of startGameLoop
Tick ==
    /\ last' = Last("tick", NoSocket, "none", TRUE)
    /\ out' = broadcastUpdates("normal") \cup broadcastUpdates("upsideDown")
    /\ roomPlayers' = [s \in Sockets |->
                          IF roomPlayers[s].worldState \in {"normal", "upsideDown"}
                          THEN [roomPlayers[s] EXCEPT !.needsBroadcast = FALSE]
                          ELSE roomPlayers[s]]
    /\ players' = [s \in Sockets |-> IF aliased[s] THEN roomPlayers'[s] ELSE players[s]]
    /\ UNCHANGED <<closed, ioRoom, socketToRoom, uidToSocket, aliased, selectedCharacters>>

\* ------------------------------------------------------------ specification
\* Spec: the server with connections that behave as NetworkManager does: each
\* sends join once, and selects the character it wants (connection s wants the
\* s-th character, so that every connection can become ready).  The clients'
\* remotePlayers are not part of this specification.
Next ==
    \/ \E s \in Sockets, uid \in UidInputs, roomId \in RoomInputs :
           /\ players[s].id = NoSocket
           /\ handlePlayerJoin(s, uid, roomId)
           /\ UNCHANGED <<remotePlayers, accepted>>
    \/ \E s \in Sockets : \E characterId \in {AVAILABLE_CHARACTERS[s]} :
           handleCharacterSelect(s, characterId) /\ UNCHANGED <<remotePlayers, accepted>>
    \/ \E s \in Sockets : handlePlayerReady(s) /\ UNCHANGED <<remotePlayers, accepted>>
    \/ \E s \in Sockets, position \in PositionInputs :
           handlePlayerMove(s, position, NoRotation, NoAnimation) /\ UNCHANGED <<remotePlayers, accepted>>
    \/ \E s \in Sockets, worldState \in WorldStateInputs :
           handleWorldChange(s, worldState) /\ UNCHANGED <<remotePlayers, accepted>>
    \/ \E s \in Sockets, text \in ChatInputs :
           handleChat(s, text) /\ UNCHANGED <<remotePlayers, accepted>>
    \/ \E s \in Sockets : handleDisconnect(s) /\ UNCHANGED <<remotePlayers, accepted>>
    \/ Tick /\ UNCHANGED <<remotePlayers, accepted>>

Spec == Init /\ [][Next]_vars

\* SpecArbiter: the character arbiter under arbitrary connections: any character
\* input from any connection, and join sent again on a registered connection.
NextArbiter ==
    \/ \E s \in Sockets, uid \in UidInputs :
           handlePlayerJoin(s, uid, DefaultRoom) /\ UNCHANGED <<remotePlayers, accepted>>
    \/ \E s \in Sockets, characterId \in CharacterInputs :
           handleCharacterSelect(s, characterId) /\ UNCHANGED <<remotePlayers, accepted>>
    \/ \E s \in Sockets : handlePlayerReady(s) /\ UNCHANGED <<remotePlayers, accepted>>
    \/ \E s \in Sockets : handleDisconnect(s) /\ UNCHANGED <<remotePlayers, accepted>>

SpecArbiter == Init /\ [][NextArbiter]_vars

\* SpecClient: the server of Spec together with the clients: every message a
\* handler emits is delivered to its recipient's NetworkManager.
NextClient ==
    \/ \E s \in Sockets, uid \in UidInputs :
           /\ players[s].id = NoSocket
           /\ handlePlayerJoin(s, uid, DefaultRoom)
           /\ remotePlayers' = Deliver(out') /\ UNCHANGED accepted
    \/ \E s \in Sockets : \E characterId \in {AVAILABLE_CHARACTERS[s]} :
           handleCharacterSelect(s, characterId) /\ remotePlayers' = Deliver(out') /\ UNCHANGED accepted
    \/ \E s \in Sockets : handlePlayerReady(s) /\ remotePlayers' = Deliver(out') /\ UNCHANGED accepted
    \/ \E s \in Sockets, worldState \in WorldStates :
           handleWorldChange(s, worldState) /\ remotePlayers' = Deliver(out') /\ UNCHANGED accepted
    \/ \E s \in Sockets : handleDisconnect(s) /\ remotePlayers' = Deliver(out') /\ UNCHANGED accepted

SpecClient == Init /\ [][NextClient]_vars

\* SpecDisconnect: sessions that join, select, become ready and disconnect, with
\* the disconnect handler run again for a socket it has already run for.
NextDisconnect ==
    \/ \E s \in Sockets, uid \in UidInputs :
           /\ players[s].id = NoSocket
           /\ handlePlayerJoin(s, uid, DefaultRoom)
           /\ UNCHANGED <<remotePlayers, accepted>>
    \/ \E s \in Sockets : \E characterId \in {AVAILABLE_CHARACTERS[s]} :
           handleCharacterSelect(s, characterId) /\ UNCHANGED <<remotePlayers, accepted>>
    \/ \E s \in Sockets : handlePlayerReady(s) /\ UNCHANGED <<remotePlayers, accepted>>
    \/ \E s \in Sockets : handleDisconnect(s) /\ UNCHANGED <<remotePlayers, accepted>>
    \/ \E s \in Sockets :
           closed[s] /\ disconnectHandler(s) /\ UNCHANGED <<remotePlayers, accepted>>

SpecDisconnect == Init /\ [][NextDisconnect]_vars

\* the history of the moves applied since the last tick, after a move of s
acceptedAfterMove(s) ==
    IF s \in RoomIds /\ players'[s] # players[s]
    THEN [accepted EXCEPT ![s] = [n |-> @.n + 1, position |-> players'[s].position,
                                  rotation |-> players'[s].rotation,
                                  animation |-> players'[s].animation]]
    ELSE accepted

\* SpecMove: sessions that join, select and become ready, the sockets of Movers
\* sending player:move with any combination of fields, and the game loop.
NextMove ==
    \/ \E s \in Sockets, uid \in UidInputs :
           /\ players[s].id = NoSocket
           /\ handlePlayerJoin(s, uid, DefaultRoom)
           /\ UNCHANGED <<remotePlayers, accepted>>
    \/ \E s \in Sockets : \E characterId \in {AVAILABLE_CHARACTERS[s]} :
           handleCharacterSelect(s, characterId) /\ UNCHANGED <<remotePlayers, accepted>>
    \/ \E s \in Sockets : handlePlayerReady(s) /\ UNCHANGED <<remotePlayers, accepted>>
    \/ \E s \in Movers, position \in MovePositionInputs, rotation \in MoveRotationInputs,
          animation \in MoveAnimationInputs :
           /\ accepted[s].n < MaxMoves
           /\ handlePlayerMove(s, position, rotation, animation)
           /\ accepted' = acceptedAfterMove(s)
           /\ UNCHANGED remotePlayers
    \/ /\ Tick
       /\ accepted' = [s \in Sockets |-> NoMoves]
       /\ UNCHANGED remotePlayers

SpecMove == Init /\ [][NextMove]_vars

\* one run of the game loop's callback, the clients not being modelled
TickStep == Tick /\ UNCHANGED <<remotePlayers, accepted>>

\* SpecTick: sessions that join, select, become ready, move and change world,
\* and the game loop with its timer: setInterval keeps firing, so a tick that
\* would change something is not postponed for ever.
NextTick ==
    \/ \E s \in Sockets, uid \in UidInputs :
           /\ players[s].id = NoSocket
           /\ handlePlayerJoin(s, uid, DefaultRoom)
           /\ UNCHANGED <<remotePlayers, accepted>>
    \/ \E s \in Sockets : \E characterId \in {AVAILABLE_CHARACTERS[s]} :
           handleCharacterSelect(s, characterId) /\ UNCHANGED <<remotePlayers, accepted>>
    \/ \E s \in Sockets : handlePlayerReady(s) /\ UNCHANGED <<remotePlayers, accepted>>
    \/ \E s \in Sockets, position \in PositionInputs :
           handlePlayerMove(s, position, NoRotation, NoAnimation)
           /\ UNCHANGED <<remotePlayers, accepted>>
    \/ \E s \in Sockets, worldState \in WorldStates :
           handleWorldChange(s, worldState) /\ UNCHANGED <<remotePlayers, accepted>>
    \/ TickStep

SpecTick == Init /\ [][NextTick]_vars /\ WF_vars(TickStep)

\* SpecSelect: sessions that join, select any of the characters of SelectInputs
\* as often as they like, become ready and change world.
NextSelect ==
    \/ \E s \in Sockets, uid \in UidInputs :
           /\ players[s].id = NoSocket
           /\ handlePlayerJoin(s, uid, DefaultRoom)
           /\ UNCHANGED <<remotePlayers, accepted>>
    \/ \E s \in Sockets, characterId \in SelectInputs :
           handleCharacterSelect(s, characterId) /\ UNCHANGED <<remotePlayers, accepted>>
    \/ \E s \in Sockets : handlePlayerReady(s) /\ UNCHANGED <<remotePlayers, accepted>>
    \/ \E s \in Sockets, worldState \in WorldStates :
           handleWorldChange(s, worldState) /\ UNCHANGED <<remotePlayers, accepted>>

SpecSelect == Init /\ [][NextSelect]_vars

\* the events whose handler reads its payload
PayloadEvents == {"join", "selectCharacter", "move", "worldChange", "animation", "chat"}

\* whether the handler of event op, run for socket s with no payload (data is
\* undefined), reaches the place where it reads a property of data
throwsWithoutPayload(op, s) ==
    CASE op = "join" -> TRUE
      [] op = "selectCharacter" -> TRUE
      [] op = "move" -> players[s].id # NoSocket
      [] op = "worldChange" -> Registered(s)
      [] op = "animation" -> players[s].id # NoSocket
      [] op = "chat" -> Registered(s) /\ getPlayersInWorldState(players[s].worldState) # {}

\* a TypeError thrown inside a socket event listener: nothing catches it, node
\* prints it and exits; every connection is closed and the maps are gone
uncaughtException ==
    /\ closed' = [t \in Sockets |-> TRUE]
    /\ ioRoom' = {}
    /\ players' = [t \in Sockets |-> NoPlayer]
    /\ socketToRoom' = [t \in Sockets |-> NoRoom]
    /\ uidToSocket' = [u \in Uids |-> NoSocket]
    /\ roomPlayers' = [t \in Sockets |-> NoPlayer]
    /\ aliased' = [t \in Sockets |-> FALSE]
    /\ selectedCharacters' = [c \in Characters |-> NoSocket]
    /\ out' = {}

\* the handler of event op, run for a message of socket s that has no payload:
\* every read of data comes before the handler's first assignment or emit
withoutPayload(op, s) ==
    /\ ~closed[s]
    /\ last' = Last(op, s, "undefined", FALSE)
    /\ IF throwsWithoutPayload(op, s) THEN uncaughtException ELSE ReplyOnly({})

\* SpecPayload: sessions that join, select and become ready, and messages of
\* every event sent without a payload.
NextPayload ==
    \/ \E s \in Sockets, uid \in UidInputs :
           /\ players[s].id = NoSocket
           /\ handlePlayerJoin(s, uid, DefaultRoom)
           /\ UNCHANGED <<remotePlayers, accepted>>
    \/ \E s \in Sockets : \E characterId \in {AVAILABLE_CHARACTERS[s]} :
           handleCharacterSelect(s, characterId) /\ UNCHANGED <<remotePlayers, accepted>>
    \/ \E s \in Sockets : handlePlayerReady(s) /\ UNCHANGED <<remotePlayers, accepted>>
    \/ \E s \in Sockets, op \in PayloadEvents :
           withoutPayload(op, s) /\ UNCHANGED <<remotePlayers, accepted>>

SpecPayload == Init /\ [][NextPayload]_vars

\* SpecDirty: every handler that can touch a session and the game loop: sessions
\* join, select, become ready, change world, chat and disconnect; the sockets
\* of Movers also send player:move and player:animation.
NextDirty ==
    \/ \E s \in Sockets, uid \in UidInputs :
           /\ players[s].id = NoSocket
           /\ handlePlayerJoin(s, uid, DefaultRoom)
           /\ UNCHANGED <<remotePlayers, accepted>>
    \/ \E s \in Sockets : \E characterId \in {AVAILABLE_CHARACTERS[s]} :
           handleCharacterSelect(s, characterId) /\ UNCHANGED <<remotePlayers, accepted>>
    \/ \E s \in Sockets : handlePlayerReady(s) /\ UNCHANGED <<remotePlayers, accepted>>
    \/ \E s \in Movers, position \in PositionInputs :
           handlePlayerMove(s, position, NoRotation, NoAnimation)
           /\ UNCHANGED <<remotePlayers, accepted>>
    \/ \E s \in Movers, animation \in AnimationInputs :
           handleAnimationChange(s, animation) /\ UNCHANGED <<remotePlayers, accepted>>
    \/ \E s \in Sockets, worldState \in WorldStates :
           handleWorldChange(s, worldState) /\ UNCHANGED <<remotePlayers, accepted>>
    \/ \E s \in Sockets, text \in {LongText} :
           handleChat(s, text) /\ UNCHANGED <<remotePlayers, accepted>>
    \/ \E s \in Sockets : handleDisconnect(s) /\ UNCHANGED <<remotePlayers, accepted>>
    \/ TickStep

SpecDirty == Init /\ [][NextDirty]_vars

\* SpecIdentity: connections that join with or without an identity token, the
\* same token on any number of connections, select, become ready and
\* disconnect.
NextIdentity ==
    \/ \E s \in Sockets, uid \in IdentityInputs :
           /\ players[s].id = NoSocket
           /\ handlePlayerJoin(s, uid, DefaultRoom)
           /\ UNCHANGED <<remotePlayers, accepted>>
    \/ \E s \in Sockets : \E characterId \in {AVAILABLE_CHARACTERS[s]} :
           handleCharacterSelect(s, characterId) /\ UNCHANGED <<remotePlayers, accepted>>
    \/ \E s \in Sockets : handlePlayerReady(s) /\ UNCHANGED <<remotePlayers, accepted>>
    \/ \E s \in Sockets : handleDisconnect(s) /\ UNCHANGED <<remotePlayers, accepted>>

SpecIdentity == Init /\ [][NextIdentity]_vars

\* SpecBounds: sessions that join, select and become ready, and the sockets of
\* Movers sending player:move with positions around the world bounds.
NextBounds ==
    \/ \E s \in Sockets, uid \in UidInputs :
           /\ players[s].id = NoSocket
           /\ handlePlayerJoin(s, uid, DefaultRoom)
           /\ UNCHANGED <<remotePlayers, accepted>>
    \/ \E s \in Sockets : \E characterId \in {AVAILABLE_CHARACTERS[s]} :
           handleCharacterSelect(s, characterId) /\ UNCHANGED <<remotePlayers, accepted>>
    \/ \E s \in Sockets : handlePlayerReady(s) /\ UNCHANGED <<remotePlayers, accepted>>
    \/ \E s \in Movers, position \in BoundsPositionInputs :
           handlePlayerMove(s, position, NoRotation, NoAnimation)
           /\ UNCHANGED <<remotePlayers, accepted>>
    \/ TickStep

SpecBounds == Init /\ [][NextBounds]_vars

\* SpecAnimation: sessions that join, select and become ready, and the sockets
\* of Movers sending player:move and player:animation with any animation value.
NextAnimation ==
    \/ \E s \in Sockets, uid \in UidInputs :
           /\ players[s].id = NoSocket
           /\ handlePlayerJoin(s, uid, DefaultRoom)
           /\ UNCHANGED <<remotePlayers, accepted>>
    \/ \E s \in Sockets : \E characterId \in {AVAILABLE_CHARACTERS[s]} :
           handleCharacterSelect(s, characterId) /\ UNCHANGED <<remotePlayers, accepted>>
    \/ \E s \in Sockets : handlePlayerReady(s) /\ UNCHANGED <<remotePlayers, accepted>>
    \/ \E s \in Movers, animation \in AnyAnimationInputs :
           handlePlayerMove(s, NoPosition, NoRotation, animation)
           /\ UNCHANGED <<remotePlayers, accepted>>
    \/ \E s \in Movers, animation \in AnyAnimationInputs :
           handleAnimationChange(s, animation) /\ UNCHANGED <<remotePlayers, accepted>>
    \/ TickStep

SpecAnimation == Init /\ [][NextAnimation]_vars

\* SpecView: the server together with the clients and the game loop: sessions
\* join, select and become ready; the sockets of Movers also move, change
\* world, and send player:join again when they are registered.
NextView ==
    \/ \E s \in Sockets, uid \in UidInputs :
           /\ players[s].id = NoSocket \/ s \in Movers
           /\ handlePlayerJoin(s, uid, DefaultRoom)
           /\ remotePlayers' = Deliver(out') /\ UNCHANGED accepted
    \/ \E s \in Sockets : \E characterId \in {AVAILABLE_CHARACTERS[s]} :
           handleCharacterSelect(s, characterId) /\ remotePlayers' = Deliver(out') /\ UNCHANGED accepted
    \/ \E s \in Sockets : handlePlayerReady(s) /\ remotePlayers' = Deliver(out') /\ UNCHANGED accepted
    \/ \E s \in Movers, position \in PositionInputs :
           handlePlayerMove(s, position, NoRotation, NoAnimation)
           /\ remotePlayers' = Deliver(out') /\ UNCHANGED accepted
    \/ \E s \in Movers, worldState \in WorldStates :
           handleWorldChange(s, worldState) /\ remotePlayers' = Deliver(out') /\ UNCHANGED accepted
    \/ Tick /\ remotePlayers' = Deliver(out') /\ UNCHANGED accepted

SpecView == Init /\ [][NextView]_vars

\* SpecDrift: sessions that join, select and become ready, the sockets of
\* Movers sending player:move in small steps, and the game loop.
NextDrift ==
    \/ \E s \in Sockets, uid \in UidInputs :
           /\ players[s].id = NoSocket
           /\ handlePlayerJoin(s, uid, DefaultRoom)
           /\ UNCHANGED <<remotePlayers, accepted>>
    \/ \E s \in Sockets : \E characterId \in {AVAILABLE_CHARACTERS[s]} :
           handleCharacterSelect(s, characterId) /\ UNCHANGED <<remotePlayers, accepted>>
    \/ \E s \in Sockets : handlePlayerReady(s) /\ UNCHANGED <<remotePlayers, accepted>>
    \/ \E s \in Movers, position \in DriftPositionInputs, rotation \in DriftRotationInputs :
           handlePlayerMove(s, position, rotation, NoAnimation)
           /\ UNCHANGED <<remotePlayers, accepted>>
    \/ TickStep

SpecDrift == Init /\ [][NextDrift]_vars

\* ------------------------------------------------------------------ claims
\* the messages of one event among those the last handler emitted, and who got them
Sent(event) == {m \in out : m.event = event}
Recipients(event) == {m.to : m \in Sent(event)}

\* the sessions a message names to its recipient
Named(m) ==
    IF m.event \in {"player:left", "player:chat"} THEN {m.id}
    ELSE IF m.event = "player:spawned" THEN {m.player.id}
    ELSE IF m.event \in {"player:joined", "player:worldChanged", "players:update"}
         THEN {p.id : p \in m.players}
         ELSE {}

\* the other sessions of Room.players that share the world state of session a
PartitionPeers(a) ==
    {t \in RoomIds \ {a} : roomPlayers[t].worldState = roomPlayers[a].worldState}

\* C1: tick broadcast isolation.  A players:update message is emitted only by a
\* tick, to a session of Room.players, and every entry of it is of a session of
\* Room.players whose worldState at that tick equals the recipient's: movement
\* in one world state is never delivered to a session in the other.
C1_TickIsolation ==
    \A m \in Sent("players:update") :
        /\ last.op = "tick"
        /\ m.to \in RoomIds
        /\ \A u \in m.players :
              /\ u.id \in RoomIds \ {m.to}
              /\ last.roomPlayers[u.id].needsBroadcast
              /\ roomPlayers[u.id].worldState = roomPlayers[m.to].worldState

\* a tick delivered an update to a session while a session of the other world
\* state had unbroadcast movement too
C1_Witness ==
    /\ last.op = "tick"
    /\ \E m \in Sent("players:update") : \E t \in RoomIds :
          /\ m.players # {}
          /\ last.roomPlayers[t].needsBroadcast
          /\ roomPlayers[t].worldState # roomPlayers[m.to].worldState

\* C2: when ready succeeds for session A, player:spawned for A is delivered to
\* exactly the other sessions of Room.players whose worldState equals A's; no
\* session of the other partition and no pending session receives it.
C2_SpawnedToPartitionOnly ==
    (last.op = "ready" /\ last.ok) =>
        /\ \A m \in Sent("player:spawned") : m.player.id = last.id
        /\ Recipients("player:spawned") = PartitionPeers(last.id)

\* C3: every session a client of an active session has been told is present
\* (its remotePlayers) is a session of Room.players with the same worldState.
C3_ViewWithinPartition ==
    \A b \in RoomIds : ~closed[b] => remotePlayers[b] \subseteq PartitionPeers(b)

\* C10: a pending session is invisible.  Every session a message names to another
\* connection was in Room.players when the message was emitted (a ready that
\* succeeded has added its session before it emits).
C10_PendingInvisible ==
    \A m \in out : \A x \in Named(m) \ {m.to} :
        \/ x \in {s \in Sockets : last.roomPlayers[s].id # NoSocket}
        \/ last.op = "ready" /\ last.ok /\ x = last.id

\* the server state the last handler started from
PreRegistered(s) == last.players[s].id # NoSocket
PreRoomIds == {s \in Sockets : last.roomPlayers[s].id # NoSocket}
PreHeld(s) == {c \in Characters : last.selectedCharacters[c] = s}
ServerUnchanged ==
    /\ players = last.players
    /\ roomPlayers = last.roomPlayers
    /\ aliased = last.aliased
    /\ selectedCharacters = last.selectedCharacters
    /\ ioRoom = last.ioRoom

\* the sessions holding character c: by their own characterId or by the arbiter
Holders(c) ==
    {s \in Sockets : players[s].characterId = c \/ selectedCharacters[c] = s}

\* the reply of a failed selectCharacter: the error and the snapshot of the
\* character map the handler started from, to the caller
SelectFailed(error) ==
    Msg(last.id, "character:selectFailed", NoSocket, serialize(NoPlayer), {},
        CharacterStatesOf(last.selectedCharacters), error, <<>>)

\* C4: at-most-one character ownership.  For every character of the fixed set,
\* at most one session holds it, under any interleaving of join (also on a
\* registered connection), selectCharacter, ready and disconnect.
C4_AtMostOneOwner ==
    \A c \in Characters : Cardinality(Holders(c)) <= 1

\* a session was refused a character that another session holds
C4_Witness ==
    /\ last.op = "selectCharacter" /\ ~last.ok
    /\ last.arg \in Characters
    /\ \E s \in Sockets \ {last.id} :
          selectedCharacters[last.arg] = s /\ players[s].characterId = last.arg

\* C5: a session holds at most one character in every state, and a successful
\* selectCharacter leaves the caller holding exactly the selected character,
\* in the arbiter and in its own characterId, with the character it held
\* before available again.
C5_AtomicReassignment ==
    /\ \A s \in Sockets : Cardinality({c \in Characters : selectedCharacters[c] = s}) <= 1
    /\ (last.op = "selectCharacter" /\ last.ok) =>
          /\ {c \in Characters : selectedCharacters[c] = last.id} = {last.arg}
          /\ players[last.id].characterId = last.arg
          /\ \A c \in PreHeld(last.id) : selectedCharacters[c] = NoSocket

\* a session that held a character has selected another one
C5_Witness ==
    /\ last.op = "selectCharacter" /\ last.ok
    /\ PreHeld(last.id) # {}
    /\ last.players[last.id].characterId \in Characters \ {last.arg}

\* C6: selectCharacter of a registered session fails with "Invalid character"
\* when the characterId is outside the fixed set and with "Character already
\* taken" when another session holds it; then the whole server state is as it
\* was (the caller keeps its character) and the only message is the failure
\* reply, with the current snapshot, to the caller.
C6_SelectFailure ==
    (last.op = "selectCharacter" /\ PreRegistered(last.id)) =>
        LET invalid == last.arg \notin Characters
            taken == /\ last.arg \in Characters
                     /\ last.selectedCharacters[last.arg] \notin {NoSocket, last.id}
        IN  /\ invalid => out = {SelectFailed("Invalid character")}
            /\ taken => out = {SelectFailed("Character already taken")}
            /\ (invalid \/ taken) => ~last.ok /\ ServerUnchanged

\* a session that holds a character was refused one that another session holds
C6_Witness ==
    /\ last.op = "selectCharacter" /\ PreRegistered(last.id)
    /\ last.arg \in Characters
    /\ last.selectedCharacters[last.arg] \notin {NoSocket, last.id}
    /\ PreHeld(last.id) # {}

\* a registered session selects the character the arbiter assigns to it
Reselection ==
    /\ last.op = "selectCharacter" /\ PreRegistered(last.id)
    /\ last.arg \in Characters
    /\ last.selectedCharacters[last.arg] = last.id

\* C7 as claimed: reselecting the character a session owns is a success and a
\* no-op, answered with character:selected.
C7_ReselectionSucceeds ==
    Reselection =>
        /\ last.ok
        /\ Recipients("character:selected") = {last.id}
        /\ Sent("character:selectFailed") = {}
        /\ ServerUnchanged

\* C7 as amended: reselecting the character a session owns changes no state
\* (the session still holds the character), and the caller alone is answered,
\* with character:selectFailed "Character already taken" and the snapshot.
C7_ReselectionRejected ==
    Reselection =>
        /\ ~last.ok
        /\ out = {SelectFailed("Character already taken")}
        /\ ServerUnchanged
        /\ selectedCharacters[last.arg] = last.id

\* a session holding a character, in the arbiter and in its own characterId,
\* has selected it again
C7_Witness ==
    Reselection /\ players[last.id].characterId = last.arg

\* the last handler was a worldChange of a session of Room.players to the other
\* valid world state
ActiveWorldChange ==
    /\ last.op = "worldChange"
    /\ last.id \in PreRoomIds /\ last.aliased[last.id]
    /\ last.arg \in WorldStates
    /\ last.players[last.id].worldState # last.arg

\* the other sessions of Room.players in world state w
OthersIn(w) == {t \in RoomIds \ {last.id} : roomPlayers[t].worldState = w}

\* C8: a worldChange of an active session A to the other valid state flips A's
\* worldState and, in that handler, delivers player:left{A} to exactly the
\* other active sessions of the old partition, player:spawned{A} to exactly
\* those of the new partition, and player:worldChanged, with exactly those of
\* the new partition as roster, to A only; nothing else is emitted and no other
\* session changes.
C8_WorldChangeDelivery ==
    ActiveWorldChange =>
        LET a == last.id
            old == last.players[a].worldState
        IN  /\ players[a].worldState = last.arg
            /\ roomPlayers[a] = players[a]
            /\ \A t \in Sockets \ {a} : roomPlayers[t] = last.roomPlayers[t]
            /\ Recipients("player:left") = OthersIn(old)
            /\ \A m \in Sent("player:left") : m.id = a
            /\ Recipients("player:spawned") = OthersIn(last.arg)
            /\ \A m \in Sent("player:spawned") : m.player = serialize(players[a])
            /\ Recipients("player:worldChanged") = {a}
            /\ \A m \in Sent("player:worldChanged") :
                  /\ m.player.worldState = last.arg
                  /\ m.players = {serialize(roomPlayers[p]) : p \in OthersIn(last.arg)}
            /\ \A m \in out :
                  m.event \in {"player:left", "player:spawned", "player:worldChanged"}
            /\ Cardinality(out) = Cardinality(OthersIn(old)) + Cardinality(OthersIn(last.arg)) + 1

\* an active session changed world with a peer in the partition it left and a
\* peer in the partition it entered
C8_Witness ==
    /\ ActiveWorldChange
    /\ OthersIn(last.players[last.id].worldState) # {}
    /\ OthersIn(last.arg) # {}

\* C9: a worldChange whose target is the session's current worldState, or is
\* not one of the two valid values, changes no state and sends nothing; and
\* every session's worldState is 'normal' or 'upsideDown' in every state.
C9_WorldChangeNoOp ==
    /\ \A s \in Sockets :
          players[s].worldState \in WorldStates /\ roomPlayers[s].worldState \in WorldStates
    /\ (/\ last.op = "worldChange"
        /\ \/ last.arg \notin WorldStates
           \/ last.players[last.id].worldState = last.arg)
       => out = {} /\ ServerUnchanged

\* an active session with a peer in its partition asked for a world state that
\* is not one of the two
C9_Witness ==
    /\ last.op = "worldChange"
    /\ last.arg \notin WorldStates
    /\ last.id \in RoomIds
    /\ PartitionPeers(last.id) # {}

\* the other sessions Room.players held, in world state w, when the last handler
\* started
ActiveBefore(w) == {t \in PreRoomIds \ {last.id} : last.roomPlayers[t].worldState = w}

\* C11: a ready that succeeds sends the caller exactly one player:joined, with
\* the caller's own state, whose roster is exactly the sessions that were
\* already in Room.players with the caller's current worldState: not the caller,
\* no session of the other partition, no pending session.
C11_ReadyRoster ==
    (last.op = "ready" /\ last.ok) =>
        LET a == last.id
        IN  /\ Recipients("player:joined") = {a}
            /\ Cardinality(Sent("player:joined")) = 1
            /\ \A m \in Sent("player:joined") :
                  /\ m.id = a
                  /\ m.player = serialize(players[a])
                  /\ m.players = {serialize(last.roomPlayers[t]) :
                                  t \in ActiveBefore(players[a].worldState)}

\* a session became ready with an active session in its partition and an
\* active session in the other partition
C11_Witness ==
    /\ last.op = "ready" /\ last.ok
    /\ \E m \in Sent("player:joined") : m.players # {}
    /\ \E t \in PreRoomIds \ {last.id} :
          last.roomPlayers[t].worldState # players[last.id].worldState

\* the first n characters of text, n at most its length
Prefix(text, n) == [i \in 1..n |-> text[i]]

\* C12: player:chat is emitted only by the chat handler, names the sender, and
\* is delivered to exactly the sessions of Room.players whose worldState equals
\* the sender's when it sent (never to a session of the other partition); the
\* message delivered is the original cut to its first 200 characters.
C12_ChatDelivery ==
    /\ Sent("player:chat") # {} => last.op = "chat"
    /\ last.op = "chat" =>
          /\ \A m \in out :
                /\ m.event = "player:chat"
                /\ m.id = last.id
                /\ m.to \in RoomIds
                /\ roomPlayers[m.to].worldState = last.players[last.id].worldState
                /\ Len(m.message) <= MAX_CHAT_LENGTH
                /\ m.message = Prefix(last.arg, Min(Len(last.arg), MAX_CHAT_LENGTH))
          /\ last.ok =>
                Recipients("player:chat") =
                    {t \in RoomIds : roomPlayers[t].worldState = last.players[last.id].worldState}

\* a message longer than the limit was delivered while an active session was
\* in the other partition
C12_Witness ==
    /\ last.op = "chat"
    /\ Len(last.arg) > MAX_CHAT_LENGTH
    /\ Recipients("player:chat") \ {last.id} # {}
    /\ \E t \in RoomIds : roomPlayers[t].worldState # last.players[last.id].worldState

\* C13: the disconnect of a registered session A delivers player:left{A} to
\* exactly the sessions left in Room.players whose worldState equals A's, and,
\* if and only if the arbiter released a character of A, the updated snapshot to
\* every socket left in the socket.io room: every remaining session of both
\* partitions (and every pending one).  Nothing else is emitted.
C13_DisconnectDelivery ==
    (last.op = "disconnect" /\ last.ok) =>
        LET a == last.id
            w == last.players[a].worldState
        IN  /\ \A m \in out : m.event \in {"player:left", "character:stateChanged"}
            /\ \A m \in Sent("player:left") : m.id = a
            /\ Recipients("player:left") = {t \in RoomIds : roomPlayers[t].worldState = w}
            /\ Recipients("character:stateChanged") = IF PreHeld(a) # {} THEN ioRoom ELSE {}
            /\ RoomIds \subseteq ioRoom
            /\ \A m \in Sent("character:stateChanged") : m.characters = getCharacterStates
            /\ \A c \in PreHeld(a) : selectedCharacters[c] = NoSocket

\* an active session holding a character disconnected, with an active session
\* in its partition and one in the other partition
C13_Witness ==
    /\ last.op = "disconnect" /\ last.ok
    /\ last.id \in PreRoomIds
    /\ PreHeld(last.id) # {}
    /\ Recipients("player:left") # {}
    /\ \E t \in RoomIds : roomPlayers[t].worldState # last.players[last.id].worldState

\* socket s is in none of the server's maps
Absent(s) ==
    /\ players[s].id = NoSocket
    /\ socketToRoom[s] = NoRoom
    /\ roomPlayers[s].id = NoSocket
    /\ \A c \in Characters : selectedCharacters[c] # s

\* C14: when the disconnect handler for s has run, s is in neither
\* GameServer.players nor Room.players and holds no character, whether it was
\* pending or active, and the other sessions are as they were; a socket that
\* has disconnected stays absent.
C14_DisconnectRemoves ==
    /\ \A s \in Sockets : closed[s] => Absent(s)
    /\ last.op = "disconnect" =>
          /\ Absent(last.id)
          /\ \A t \in Sockets \ {last.id} :
                /\ players[t] = last.players[t]
                /\ roomPlayers[t] = last.roomPlayers[t]
          /\ \A c \in Characters :
                selectedCharacters[c] =
                    IF last.selectedCharacters[c] = last.id THEN NoSocket
                    ELSE last.selectedCharacters[c]

\* an active session holding a character has disconnected
C14_Witness ==
    /\ last.op = "disconnect"
    /\ last.id \in PreRoomIds
    /\ PreHeld(last.id) # {}
    /\ last.players[last.id].characterId \in Characters

\* C15: the disconnect handler run again for a socket it has already run for
\* changes no state and emits nothing (no player:left, no snapshot).
C15_DisconnectIdempotent ==
    (last.op = "disconnect" /\ last.closed[last.id]) =>
        /\ out = {}
        /\ ~last.ok
        /\ ServerUnchanged
        /\ closed = last.closed
        /\ socketToRoom = last.socketToRoom
        /\ uidToSocket = last.uidToSocket

\* the handler ran a second time while active sessions and a held character
\* remained in the room
C15_Witness ==
    /\ last.op = "disconnect" /\ last.closed[last.id]
    /\ RoomIds # {}
    /\ \E c \in Characters : selectedCharacters[c] # NoSocket

\* the fields of the last player:move, against the session it was sent for
BelowPosition(p, position) ==
    /\ Abs(p.position.x - position.x) < POSITION_THRESHOLD
    /\ Abs(p.position.y - position.y) < POSITION_THRESHOLD
    /\ Abs(p.position.z - position.z) < POSITION_THRESHOLD
BelowRotation(p, rotation) == Abs(p.rotation - rotation) < ROTATION_THRESHOLD

\* C16: threshold suppression.  A move of a registered session whose position
\* (if sent) differs from the stored one by less than POSITION_THRESHOLD in
\* every component, whose yaw (if sent) differs by less than ROTATION_THRESHOLD
\* and whose animation (if sent) is the stored one leaves the session's
\* position, rotation, animation and needsBroadcast, and everything else, as
\* they were.
C16_ThresholdSuppression ==
    (last.op = "move" /\ PreRegistered(last.id)) =>
        LET p == last.players[last.id]
            suppressed ==
                /\ last.arg.position = NoPosition \/ BelowPosition(p, last.arg.position)
                /\ last.arg.rotation = NoRotation \/ BelowRotation(p, last.arg.rotation)
                /\ last.arg.animation = NoAnimation \/ last.arg.animation = p.animation
        IN  suppressed => /\ players[last.id] = p
                          /\ ServerUnchanged
                          /\ out = {}

\* an active session sent a position and a yaw that both differ from the
\* stored ones, by less than the thresholds, with its stored animation
C16_Witness ==
    /\ last.op = "move" /\ last.id \in PreRoomIds
    /\ last.arg.position # NoPosition /\ last.arg.rotation # NoRotation
    /\ last.arg.position # last.players[last.id].position
    /\ last.arg.rotation # last.players[last.id].rotation
    /\ BelowPosition(last.players[last.id], last.arg.position)
    /\ BelowRotation(last.players[last.id], last.arg.rotation)
    /\ last.arg.animation = last.players[last.id].animation
    /\ players[last.id] = last.players[last.id]

\* the entry of session s in the batch the last tick collected for world state w
TickEntries(s, w) == {u \in UpdatesOf(last.roomPlayers, w) : u.id = s}

\* the entry a tick sends for session s after the moves recorded in last.accepted
LastMoveEntry(s) ==
    [id |-> s, position |-> last.accepted[s].position,
     rotation |-> last.accepted[s].rotation, animation |-> last.accepted[s].animation]

\* C17: tick batching.  When one or more moves of an active session were
\* applied since the previous tick, the batch the tick collects for the
\* session's partition holds exactly one entry for the session, carrying the
\* state after the last of those moves, and so does the players:update that
\* every other session of the partition receives.
C17_TickBatching ==
    last.op = "tick" =>
        \A s \in Sockets : last.accepted[s].n >= 1 =>
            LET w == last.roomPlayers[s].worldState
            IN  /\ s \in PreRoomIds
                /\ TickEntries(s, w) = {LastMoveEntry(s)}
                /\ \A t \in PlayersInWorldStateOf(last.roomPlayers, w) \ {s} :
                      \E m \in Sent("players:update") :
                          /\ m.to = t
                          /\ {u \in m.players : u.id = s} = {LastMoveEntry(s)}
                /\ ~roomPlayers[s].needsBroadcast

\* a tick followed two applied moves of a session, the second of which changed
\* its position again, and a peer received the entry
C17_Witness ==
    /\ last.op = "tick"
    /\ \E s \in Sockets :
          /\ last.accepted[s].n >= 2
          /\ last.accepted[s].position.x = 20 /\ last.accepted[s].rotation = 20
          /\ \E m \in Sent("players:update") : LastMoveEntry(s) \in m.players

\* C18: the move handler sends nothing.  After a move, applied or suppressed,
\* no message has been emitted and no session but the mover's has changed;
\* players:update is emitted by a tick only, so a peer learns of the move from
\* the players:update of a later tick.
C18_MoveSendsNothing ==
    /\ Sent("players:update") # {} => last.op = "tick"
    /\ last.op = "move" =>
          /\ out = {}
          /\ \A t \in Sockets \ {last.id} :
                players[t] = last.players[t] /\ roomPlayers[t] = last.roomPlayers[t]
          /\ selectedCharacters = last.selectedCharacters
          /\ ioRoom = last.ioRoom

\* a move of an active session with a peer in its partition was applied
C18_Witness ==
    /\ last.op = "move"
    /\ last.id \in RoomIds
    /\ players[last.id] # last.players[last.id]
    /\ roomPlayers[last.id].needsBroadcast
    /\ PartitionPeers(last.id) # {}

\* the entry a tick sends for session a, from the state the tick started with
TickEntry(a) ==
    [id |-> a, position |-> last.roomPlayers[a].position,
     rotation |-> last.roomPlayers[a].rotation, animation |-> last.roomPlayers[a].animation]

\* a and b are sessions of Room.players in one partition
Together(a, b) ==
    /\ a # b /\ a \in RoomIds /\ b \in RoomIds
    /\ roomPlayers[a].worldState = roomPlayers[b].worldState

\* the last step was a tick that delivered the entry of a to b
DeliveredTo(a, b) ==
    /\ last.op = "tick"
    /\ \E m \in Sent("players:update") : m.to = b /\ TickEntry(a) \in m.players

\* a tick delivers to every session the entry of every other session of its
\* partition that was marked for broadcast when the tick started
TickDelivers ==
    last.op = "tick" =>
        \A a \in PreRoomIds : \A b \in PreRoomIds \ {a} :
            (/\ last.roomPlayers[a].needsBroadcast
             /\ last.roomPlayers[a].worldState = last.roomPlayers[b].worldState)
            => DeliveredTo(a, b)

\* C19: no update is silently dropped.  With the game loop's timer firing,
\* whenever an active session a is marked for broadcast with an active session
\* b in its partition, a tick follows that delivers to b a players:update with
\* the entry of a as of that tick, unless a and b have stopped being active in
\* one partition before; and every tick delivers every such entry.
C19_NoDroppedUpdate ==
    /\ []TickDelivers
    /\ \A a \in Sockets : \A b \in Sockets \ {a} :
          (Together(a, b) /\ roomPlayers[a].needsBroadcast)
              ~> (DeliveredTo(a, b) \/ ~Together(a, b))

\* a tick delivered the moved position of a session to a peer of its partition
C19_Witness ==
    \E a \in RoomIds : \E b \in RoomIds \ {a} :
        /\ DeliveredTo(a, b)
        /\ Together(a, b)
        /\ TickEntry(a).position \in PositionInputs

\* the sessions of world state w and the batch collected for it when the last
\* tick started, and the batch without the entry of t
TickGroup(w) == PlayersInWorldStateOf(last.roomPlayers, w)
TickBatch(w) == UpdatesOf(last.roomPlayers, w)
Filtered(w, t) == {u \in TickBatch(w) : u.id # t}

\* no players:update holds an entry of its recipient
NoOwnEcho == \A m \in Sent("players:update") : \A u \in m.players : u.id # m.to

\* C20 as claimed: in a tick where the batch of a partition is non-empty, every
\* session of the partition is sent the batch without its own entry, and no
\* players:update holds an entry of its recipient.
C20_EverySessionNotified ==
    /\ NoOwnEcho
    /\ last.op = "tick" =>
          \A w \in WorldStates : TickBatch(w) # {} =>
              \A t \in TickGroup(w) :
                  \E m \in Sent("players:update") : m.to = t /\ m.players = Filtered(w, t)

\* C20 as amended: in a tick, a session of a partition is sent exactly one
\* players:update, holding the partition's batch without its own entry, when
\* that filtered batch is non-empty, and nothing when it is empty (the session
\* whose entry is the whole batch); no players:update holds an entry of its
\* recipient.
C20_NonEmptyFilteredBatch ==
    /\ NoOwnEcho
    /\ last.op = "tick" =>
          \A w \in WorldStates : \A t \in TickGroup(w) :
              {m \in Sent("players:update") : m.to = t} =
                  IF Filtered(w, t) = {} THEN {}
                  ELSE {Msg(t, "players:update", NoSocket, serialize(NoPlayer),
                            Filtered(w, t), NoCharacters, "none", <<>>)}

\* a tick whose batch was the entry of one session: its peers were sent the
\* batch, the session itself was sent nothing
C20_Witness ==
    /\ last.op = "tick"
    /\ \E w \in WorldStates : \E t \in TickGroup(w) :
          /\ TickBatch(w) # {}
          /\ Filtered(w, t) = {}
          /\ \A m \in out : m.to # t
          /\ \E m \in out : m.players = TickBatch(w)

\* C21: in a tick, nothing is emitted to the sessions of a partition none of
\* whose sessions is marked for broadcast; a tick emits players:update only,
\* and at most one to each session.
C21_SilentWhenClean ==
    last.op = "tick" =>
        /\ \A w \in WorldStates :
              TickBatch(w) = {} => \A m \in out : m.to \notin TickGroup(w)
        /\ \A m \in out : m.event = "players:update"
        /\ \A t \in Sockets : Cardinality({m \in out : m.to = t}) <= 1

\* a tick delivered the batch of one partition while the other partition had
\* a session and no session marked
C21_Witness ==
    /\ last.op = "tick"
    /\ out # {}
    /\ \E w \in WorldStates : TickBatch(w) = {} /\ TickGroup(w) # {}

\* no variable of the server differs from what the last handler started with
NothingChanged ==
    /\ ServerUnchanged
    /\ closed = last.closed
    /\ socketToRoom = last.socketToRoom
    /\ uidToSocket = last.uidToSocket

\* C22: a join is rejected with "Room not found" when the roomId is not a room
\* of the server, and with "Room is full" when the number of sessions in
\* Room.players has reached maxPlayers; it is accepted otherwise.  A rejected
\* join changes nothing on the server and answers the caller only.
C22_JoinRejected ==
    last.op = "join" =>
        LET unknown == last.arg # DefaultRoom
            full == Cardinality(PreRoomIds) >= maxPlayers
        IN  /\ unknown => out = {ErrorMsg(last.id, "Room not found")}
            /\ (~unknown /\ full) => out = {ErrorMsg(last.id, "Room is full")}
            /\ last.ok <=> (~unknown /\ ~full)
            /\ ~last.ok => NothingChanged

\* a join was refused because maxPlayers sessions were ready in the room
C22_Witness ==
    /\ last.op = "join" /\ ~last.ok
    /\ last.arg = DefaultRoom
    /\ Cardinality(RoomIds) = maxPlayers
    /\ players[last.id].id = NoSocket

\* C23: an accepted join registers a new Player for the caller, with no
\* character, worldState 'normal' and no mark for broadcast, that is not the
\* object Room.players holds: Room.players (what isFull counts and the
\* partition queries return), the arbiter and the other sessions are as they
\* were, and the only message is the character snapshot, to the caller.
C23_JoinCreatesPending ==
    (last.op = "join" /\ last.ok) =>
        LET s == last.id
        IN  /\ players[s].id = s
            /\ players[s].characterId = NoCharacter
            /\ players[s].worldState = "normal"
            /\ ~players[s].needsBroadcast
            /\ ~aliased[s]
            /\ s \in ioRoom
            /\ roomPlayers = last.roomPlayers
            /\ selectedCharacters = last.selectedCharacters
            /\ \A t \in Sockets \ {s} : players[t] = last.players[t]
            /\ out = {Msg(s, "player:selectCharacterScreen", s, serialize(NoPlayer), {},
                          CharacterStatesOf(selectedCharacters), "none", <<>>)}

\* a connection joined while another session was active, holding a character,
\* and a third was pending
C23_Witness ==
    /\ last.op = "join" /\ last.ok
    /\ last.players[last.id].id = NoSocket
    /\ \E t \in RoomIds \ {last.id} : selectedCharacters[players[t].characterId] = t
    /\ \E t \in ioRoom \ (RoomIds \cup {last.id}) : TRUE

\* C24: ready of a registered session whose Player has no characterId is
\* rejected: the caller alone is sent "Please select a character first" and
\* nothing changes (the session is not added to Room.players).
C24_ReadyWithoutCharacter ==
    (/\ last.op = "ready"
     /\ PreRegistered(last.id)
     /\ last.players[last.id].characterId = NoCharacter) =>
        /\ ~last.ok
        /\ out = {ErrorMsg(last.id, "Please select a character first")}
        /\ NothingChanged

\* a pending session without character sent ready while another session was
\* active
C24_Witness ==
    /\ last.op = "ready" /\ ~last.ok
    /\ PreRegistered(last.id)
    /\ last.id \notin RoomIds
    /\ RoomIds # {}

LiveSessions == {t \in Sockets : Registered(t) /\ ~closed[t]}

\* the entry of character c in snapshot cs
StateOf(cs, c) == CHOOSE e \in {cs[i] : i \in DOMAIN cs} : e.id = c

\* C26: on a successful selectCharacter the caller gets character:selected and
\* every other registered session, pending or ready and in either world state,
\* gets character:stateChanged; nothing else is sent; every one of these
\* messages carries the snapshot of the character map as the selection left it:
\* in it the selected character is taken by the caller, and a character the
\* caller held before is available.
C26_SelectDelivery ==
    (last.op = "selectCharacter" /\ last.ok) =>
        LET a == last.id
            fresh == CharacterStatesOf(selectedCharacters)
        IN  /\ Recipients("character:selected") = {a}
            /\ Recipients("character:stateChanged") = LiveSessions \ {a}
            /\ \A m \in out :
                   /\ m.event \in {"character:selected", "character:stateChanged"}
                   /\ m.characters = fresh
                   /\ StateOf(m.characters, last.arg) =
                          [id |-> last.arg, available |-> FALSE, takenBy |-> a]
                   /\ \A c \in PreHeld(a) : StateOf(m.characters, c).available
            /\ \A m1, m2 \in Sent("character:stateChanged") : m1.to = m2.to => m1 = m2

\* a session that held a character selected another one, while a ready session
\* of the other world state and a pending session were registered
C26_Witness ==
    /\ last.op = "selectCharacter" /\ last.ok
    /\ PreHeld(last.id) # {}
    /\ \E t, u \in Recipients("character:stateChanged") :
           /\ t \in RoomIds /\ roomPlayers[t].worldState # players[last.id].worldState
           /\ u \notin RoomIds

\* C27: a message without payload affects only itself: the server keeps
\* running, no connection is closed, no room or session state changes and
\* nothing is sent to anybody.
C27_NeverFatal ==
    last.arg = "undefined" =>
        /\ ServerUnchanged
        /\ closed = last.closed
        /\ socketToRoom = last.socketToRoom
        /\ out = {}

\* the session of socket s was marked for broadcast before the last handler and
\* is still there, unmarked, after it
Unmarked(before, after, s) ==
    /\ before[s].id # NoSocket /\ before[s].needsBroadcast
    /\ after[s].id # NoSocket /\ ~after[s].needsBroadcast

\* C28: the mark for broadcast of a session, in GameServer.players or in
\* Room.players, goes from true to false only in a run of the game loop, and
\* only when the batch that run collected for the session's world state holds
\* the session's entry; no handler of a socket event unmarks a session.
C28_UnmarkedByTickOnly ==
    \A s \in Sockets :
        (Unmarked(last.players, players, s) \/ Unmarked(last.roomPlayers, roomPlayers, s)) =>
            /\ last.op = "tick"
            /\ s \in PreRoomIds
            /\ TickEntry(s) \in TickBatch(last.roomPlayers[s].worldState)

\* a run of the game loop unmarked a session that had changed its animation and
\* its world state while it was marked
C28_Witness ==
    /\ last.op = "tick"
    /\ \E s \in Sockets :
           /\ Unmarked(last.roomPlayers, roomPlayers, s)
           /\ roomPlayers[s].animation = "walk"
           /\ roomPlayers[s].worldState = "upsideDown"

\* C29: every session of Room.players is the Player object GameServer.players
\* holds for the same id, with the same worldState, transform and characterId;
\* no connection has a session in Room.players and another, pending, session
\* in GameServer.players.
C29_SingleSession ==
    \A s \in RoomIds : aliased[s] /\ roomPlayers[s] = players[s]

\* the last handler was an accepted join of a connection whose token was
\* mapped to the live session of another connection t
DuplicateJoin(t) ==
    /\ last.op = "join" /\ last.ok
    /\ t # last.id
    /\ players[last.id].firebaseUid # NoUid
    /\ last.uidToSocket[players[last.id].firebaseUid] = t
    /\ last.players[t].id # NoSocket
    /\ ~last.closed[t]

\* two live sessions that carry the same token
Twins(s, t) ==
    /\ s # t
    /\ s \in LiveSessions /\ t \in LiveSessions
    /\ players[s].firebaseUid # NoUid
    /\ players[s].firebaseUid = players[t].firebaseUid

InBounds(position) ==
    /\ position.x # NaN /\ minX <= position.x /\ position.x <= maxX
    /\ position.z # NaN /\ minZ <= position.z /\ position.z <= maxZ

\* C31: the position of every session, in GameServer.players and in
\* Room.players, has x and z within the world bounds, the spawn positions
\* included.
C31_PositionsWithinBounds ==
    /\ \A s \in Sockets : InBounds(players[s].position) /\ InBounds(roomPlayers[s].position)
    /\ \A p \in SpawnPositions : InBounds(p)

\* C32: the animation of every session, in GameServer.players and in
\* Room.players, is idle, walk or run.
C32_AnimationIsATag ==
    \A s \in Sockets :
        /\ players[s].animation \in AnimationTags
        /\ roomPlayers[s].animation \in AnimationTags

\* C33: the client of every ready session b has been told of every other
\* session of Room.players that shares b's world state, and every entry of a
\* players:update is of a session its recipient had been told of.
C33_ViewComplete ==
    /\ \A b \in RoomIds : ~closed[b] => PartitionPeers(b) \subseteq remotePlayers[b]
    /\ \A m \in Sent("players:update") : \A u \in m.players : u.id \in remotePlayers[m.to]

\* C34: the characterId of every session of GameServer.players agrees with the
\* character map: it is c exactly when the map assigns c to the session's id,
\* and null exactly when the map assigns the id no character.
C34_CharacterAgrees ==
    \A s \in Sockets : players[s].id # NoSocket =>
        /\ \A c \in Characters : (players[s].characterId = c) <=> (selectedCharacters[c] = s)
        /\ players[s].characterId \in Characters \cup {NoCharacter}

\* C35: no two sessions of Room.players have the same characterId, and no
\* roster names two sessions with the same characterId, or one with the
\* characterId of the session the message is about.
C35_DistinctCharacters ==
    /\ \A s, t \in RoomIds :
           s # t => roomPlayers[s].characterId # roomPlayers[t].characterId
    /\ \A m \in out : \A p, q \in m.players \cup {m.player} :
           (m.event \in {"player:joined", "player:worldChanged"} /\ p.id # q.id) =>
               p.characterId # q.characterId

\* C36: every character the character map holds is held by a connection that
\* is open and registered with GameServer for the room of the map; when every
\* connection has disconnected, every character is available.
C36_NoCharacterLeaked ==
    /\ \A c \in Characters : selectedCharacters[c] # NoSocket =>
           LET s == selectedCharacters[c]
           IN  s \in LiveSessions /\ socketToRoom[s] = DefaultRoom
    /\ (\A s \in Sockets : closed[s]) =>
           \A c \in Characters : selectedCharacters[c] = NoSocket

\* the last connection disconnected; it held a character, as a pending session
\* that had joined twice
C36_Witness ==
    /\ \A s \in Sockets : closed[s]
    /\ last.op = "disconnect"
    /\ PreHeld(last.id) # {}
    /\ last.players[last.id].characterId = NoCharacter
    /\ last.roomPlayers[last.id].id = NoSocket

\* C37: every live registered session that joined with a token has an entry
\* for the token in uidToSocket, and every entry of uidToSocket points at a live
\* registered session that carries the token.
C37_TokenMapConsistent ==
    /\ \A s \in LiveSessions :
           players[s].firebaseUid # NoUid => uidToSocket[players[s].firebaseUid] # NoSocket
    /\ \A u \in Uids : uidToSocket[u] # NoSocket =>
           /\ uidToSocket[u] \in LiveSessions
           /\ players[uidToSocket[u]].firebaseUid = u

\* a and b are numbers that differ by at most epsilon
Within(a, b, epsilon) == Abs(a - b) <= epsilon

\* C38: right after a move of a registered session that carries a position,
\* every component of the stored position is within the position threshold of
\* the clamped position of the message; right after one that carries a
\* rotation, the stored rotation is within the rotation threshold of the
\* rotation of the message.
C38_NoLostMovement ==
    (last.op = "move" /\ last.ok) =>
        LET stored == players[last.id]
        IN  /\ last.arg.position # NoPosition =>
                   LET requested == ClampPosition(last.arg.position)
                   IN  /\ Within(stored.position.x, requested.x, POSITION_THRESHOLD)
                       /\ Within(stored.position.y, requested.y, POSITION_THRESHOLD)
                       /\ Within(stored.position.z, requested.z, POSITION_THRESHOLD)
            /\ last.arg.rotation # NoRotation =>
                   Within(stored.rotation, last.arg.rotation, ROTATION_THRESHOLD)

\* a move that carried a position and a rotation, each one step below its
\* threshold from what is stored, was suppressed, the session having moved
\* from its spawn position before
C38_Witness ==
    /\ last.op = "move" /\ last.ok
    /\ last.arg.position # NoPosition /\ last.arg.rotation # NoRotation
    /\ players[last.id].position # ClampPosition(last.arg.position)
    /\ players[last.id].rotation # last.arg.rotation
    /\ players[last.id].position.x > POSITION_THRESHOLD
    /\ players[last.id].rotation > ROTATION_THRESHOLD

====
